---- MODULE Spec2Model ----
(***************************************************************************)
(* Model of sapio_zoo/airdrop.py: the AirDrop contract, whose single       *)
(* guarantee payout() pays the head batch of a schedule into a TreePay and *)
(* defers the remaining batches into a new AirDrop instance.               *)
(*                                                                         *)
(* Python values are modelled as follows.                                  *)
(*   (amt, to)                 the tuple <<amt, to>>                       *)
(*   (delay, current_batch)    the tuple <<delay, payments>>               *)
(*   RelativeTimeSpec(t)       [tag |-> "Relative", time |-> t]            *)
(*   AbsoluteTimeSpec(t)       [tag |-> "Absolute", time |-> t]            *)
(*   an optional field         <<>> when unset, <<v>> when set to v        *)
(*   Amount                    a Python int: unbounded, never wraps        *)
(***************************************************************************)
EXTENDS Integers, Sequences, FiniteSets, TLC

VARIABLES arg, insts, txs, again, err

vars == <<arg, insts, txs, again, err>>

\* ---------------------------------------------------------------- bounds

\* the longest schedule handed to the constructor
MaxBatches == 3
\* the largest representable amount (stands for the value range of the ledger)
MaxMoney == 3

\* ---------------------------------------------------------------- inputs

RelativeTimeSpec(t) == [tag |-> "Relative", time |-> t]
AbsoluteTimeSpec(t) == [tag |-> "Absolute", time |-> t]

\* two well-formed delays of different tag and magnitude, two negative ones
TimeSpecs ==
    {RelativeTimeSpec(1), AbsoluteTimeSpec(2), RelativeTimeSpec(-1), AbsoluteTimeSpec(-2)}

\* the amounts of one batch, in order: none, one, two or three payments; two
\* different batches have the same total (3), one has another total (5)
AmountLists == {<<>>, <<3>>, <<1, 2>>, <<2, 1, 2>>}

Recipient(j) == IF j % 2 = 1 THEN "A" ELSE "B"

\* the j-th payment of a batch goes to Recipient(j)
PaymentLists ==
    {[j \in 1..Len(a) |-> <<a[j], Recipient(j)>>] : a \in AmountLists}

BatchSet == TimeSpecs \X PaymentLists

SeqsUpTo(S, n) == UNION {[1..m -> S] : m \in 0..n}

Schedules == SeqsUpTo(BatchSet, MaxBatches)

Radices == {2, 3}

\* ------------------------------------------------- collaborators (spec 6)

\* TransactionTemplate(): no outputs, no time predicate set
TransactionTemplate == [outputs |-> <<>>, sequence |-> <<>>, lock_time |-> <<>>]

add_output(tx, amount, contract) ==
    [tx EXCEPT !.outputs = Append(@, <<amount, contract>>)]

set_sequence(tx, n) == [tx EXCEPT !.sequence = <<n>>]

set_lock_time(tx, n) == [tx EXCEPT !.lock_time = <<n>>]

\* the distribution target: opaque, built from the payments and the radix
TreePay(payments, radix) ==
    [kind |-> "TreePay", payments |-> payments, radix |-> radix]

\* ------------------------------------------------------------ construction

\* the fields of an AirDrop object
AirDrop(batches, radix) ==
    [kind |-> "AirDrop", batches |-> batches, radix |-> radix]

\* variant: only the empty schedule is refused
InvalidSchedule_only_empty(batches) == batches = <<>>

InvalidSchedule(batches) ==
    \/ batches = <<>>
    \/ \E i \in 1..Len(batches) : batches[i][2] = <<>>

\* variant: only the head batch's delay is looked at
InvalidDelay_head_only(batches) ==
    batches # <<>> /\ batches[1][1].time < 0

InvalidDelay(batches) ==
    \E i \in 1..Len(batches) : batches[i][1].time < 0

\* the error construction raises, "" when the instance is constructed
construct_error(batches, radix) ==
    IF InvalidSchedule(batches) THEN "InvalidSchedule"
    ELSE IF InvalidDelay(batches) THEN "InvalidDelay"
    ELSE ""

\* ------------------------------------------------------------------ payout

\* variant: the first amount stands for the whole batch
sum_first(payments) ==
    IF payments = <<>> THEN 0 ELSE payments[1][1]

RECURSIVE sum_skip_zero_index(_)
\* variant: the summation starts at the second amount
sum_skip_zero_index(payments) ==
    IF Len(payments) <= 1 THEN 0
    ELSE payments[Len(payments)][1]
         + sum_skip_zero_index(SubSeq(payments, 1, Len(payments) - 1))

RECURSIVE sum(_)
\* sum([amt for (amt, to) in payments])
sum(payments) ==
    IF payments = <<>> THEN 0 ELSE payments[1][1] + sum(Tail(payments))

Reverse(q) == [i \in 1..Len(q) |-> q[Len(q) + 1 - i]]

\* variant: the tail comes out in reverse order
tail_slice_reversed(batches) == Reverse(SubSeq(batches, 2, Len(batches)))

\* variant: the slice starts one batch late ([2:])
tail_slice_skip(batches) == SubSeq(batches, 3, Len(batches))

\* self.batches.value[1:]
tail_slice(batches) == SubSeq(batches, 2, Len(batches))

\* variant: the guard lets the last batch through (> 0)
has_tail_always(batches) == Len(batches) > 0

\* variant: the guard is off by one (> 2)
has_tail_late(batches) == Len(batches) > 2

\* len(self.batches.value) > 1
has_tail(batches) == Len(batches) > 1

\* variant: the head batch's total is taken once, whatever the tail's length
remaining_once(rest, current_batch) ==
    IF rest = <<>> THEN 0 ELSE sum(current_batch)

RECURSIVE remaining_loop(_, _)
\* remaining = Sats(0); for batch in rest: remaining += sum(current_batch)
remaining_loop(rest, current_batch) ==
    IF rest = <<>> THEN 0
    ELSE sum(current_batch) + remaining_loop(Tail(rest), current_batch)

\* variant: the two setters are swapped
set_time_swapped(tx, delay) ==
    IF delay.tag = "Relative" THEN [tx EXCEPT !.lock_time = <<delay.time>>]
    ELSE IF delay.tag = "Absolute" THEN [tx EXCEPT !.sequence = <<delay.time>>]
    ELSE tx

\* the isinstance dispatch on the head batch's delay
set_time(tx, delay) ==
    IF delay.tag = "Relative" THEN set_sequence(tx, delay.time)
    ELSE IF delay.tag = "Absolute" THEN set_lock_time(tx, delay.time)
    ELSE tx

\* variant: the radix is not taken from self
radix_of_default(self) == 2

\* self.radix, as handed to TreePay and to the continuation
radix_of(self) == self.radix

Raise(e) == [ok |-> FALSE, error |-> e, tx |-> TransactionTemplate]
Return(tx) == [ok |-> TRUE, error |-> "", tx |-> tx]

\* payout(self): the returned instruction, or the exception raised
payout(self) ==
    IF self.batches = <<>> THEN Raise("IndexError")
    ELSE
      LET delay == self.batches[1][1]
          current_batch == self.batches[1][2]
          total_amt == sum(current_batch)
          tx1 == add_output(TransactionTemplate, total_amt,
                            TreePay(current_batch, radix_of(self)))
          tx2 == set_time(tx1, delay)
          rest == tail_slice(self.batches)
          remaining == remaining_loop(rest, current_batch)
      IN  IF has_tail(self.batches)
          THEN IF construct_error(rest, self.radix) # ""
               THEN Raise(construct_error(rest, self.radix))
               ELSE Return(add_output(tx2, remaining, AirDrop(rest, radix_of(self))))
          ELSE Return(tx2)

\* variant: payout consumes the head batch of self (pop(0))
payout_self_pop(self) ==
    IF self.batches = <<>> THEN self ELSE [self EXCEPT !.batches = Tail(@)]

\* the fields of self once payout has returned: payout assigns to none of them
payout_self(self) == self

\* ----------------------------------------------------------------- actions

Init ==
    /\ arg = <<>>
    /\ insts = <<>>
    /\ txs = <<>>
    /\ again = <<>>
    /\ err = ""

\* AirDrop(batches=..., radix=...) called by the instantiator
New ==
    /\ arg = <<>>
    /\ \E batches \in Schedules, radix \in Radices :
         /\ arg' = <<[batches |-> batches, radix |-> radix]>>
         /\ err' = construct_error(batches, radix)
         /\ insts' = IF construct_error(batches, radix) = ""
                     THEN <<AirDrop(batches, radix)>>
                     ELSE <<>>
    /\ UNCHANGED <<txs, again>>

\* payout() invoked on the newest instance of the chain, for the first time
Payout ==
    /\ err = ""
    /\ Len(txs) < Len(insts)
    /\ LET k == Len(txs) + 1
           self == insts[k]
           r == payout(self)
           kept == [insts EXCEPT ![k] = payout_self(self)]
       IN  IF r.ok
           THEN /\ txs' = Append(txs, r.tx)
                /\ insts' = IF Len(r.tx.outputs) > 1
                            THEN Append(kept, r.tx.outputs[2][2])
                            ELSE kept
                /\ err' = err
           ELSE /\ err' = r.error
                /\ insts' = kept
                /\ txs' = txs
    /\ UNCHANGED <<arg, again>>

\* payout() invoked once more on an instance that already has its instruction
Repayout ==
    /\ err = ""
    /\ \E k \in 1..Len(txs) :
         LET self == insts[k]
             r == payout(self)
         IN  /\ insts' = [insts EXCEPT ![k] = payout_self(self)]
             /\ IF r.ok
                THEN /\ again' = <<[of |-> k, tx |-> r.tx]>>
                     /\ err' = err
                ELSE /\ again' = again
                     /\ err' = r.error
    /\ UNCHANGED <<arg, txs>>

Next == New \/ Payout \/ Repayout

Spec == Init /\ [][Next]_vars

\* every instance's payout is eventually invoked
LiveSpec == Spec /\ WF_vars(Payout)

\* ---------------------------------------------------- reference quantities

\* the schedule and the radix handed to the constructor
S == arg[1].batches

RECURSIVE BatchTotal(_)
\* the exact total of one batch's amounts
BatchTotal(payments) ==
    IF payments = <<>> THEN 0
    ELSE payments[Len(payments)][1] + BatchTotal(SubSeq(payments, 1, Len(payments) - 1))

RECURSIVE ScheduleTotal(_)
\* the exact total of all the amounts of a schedule
ScheduleTotal(batches) ==
    IF batches = <<>> THEN 0
    ELSE BatchTotal(batches[Len(batches)][2])
         + ScheduleTotal(SubSeq(batches, 1, Len(batches) - 1))

RECURSIVE DistributedTotal(_)
\* the total of the first outputs of a sequence of instructions
DistributedTotal(instructions) ==
    IF instructions = <<>> THEN 0
    ELSE instructions[Len(instructions)].outputs[1][1]
         + DistributedTotal(SubSeq(instructions, 1, Len(instructions) - 1))

Suffix(batches, k) == SubSeq(batches, k, Len(batches))

\* an instance was constructed and no payout has raised
Running == insts # <<>> /\ err = ""

\* the chain has ended: every constructed instance has its instruction
Terminal == Running /\ Len(txs) = Len(insts)

\* ------------------------------------------------------------------ claims

\* C1: for every instance whose schedule has at least two batches, payout
\* emits a second output whose value is the total of the amounts of the
\* batches of the tail (schedule[1:]), not the head batch's total.
C1_RemainingIsTailTotal ==
    \A k \in 1..Len(txs) :
        Len(insts[k].batches) >= 2 =>
            /\ Len(txs[k].outputs) = 2
            /\ txs[k].outputs[2][1] = ScheduleTotal(Suffix(insts[k].batches, 2))

\* C2: conservation: when the chain started from schedule S has ended, the
\* values of the first outputs of its instructions sum to the total of S.
C2_Conservation ==
    Terminal => DistributedTotal(txs) = ScheduleTotal(S)

C2_Witness ==
    /\ Terminal
    /\ Len(S) = 3
    /\ \E k \in 1..3 : Len(S[k][2]) >= 2
    /\ \E i, j \in 1..3 : BatchTotal(S[i][2]) # BatchTotal(S[j][2])

\* C3: order preservation: the k-th payout of the chain is invoked on the
\* suffix of S that starts at batch k, pays exactly batch k of S, and the
\* continuation it creates carries exactly the batches after k, in order.
C3_OrderPreserved ==
    /\ \A k \in 1..Len(insts) : insts[k].batches = Suffix(S, k)
    /\ \A k \in 1..Len(txs) :
        /\ k <= Len(S)
        /\ txs[k].outputs[1][2].payments = S[k][2]
        /\ k < Len(S) =>
            /\ Len(txs[k].outputs) = 2
            /\ txs[k].outputs[2][2].batches = Suffix(S, k + 1)

C3_Witness ==
    /\ Len(txs) = 3
    /\ Len(S) = 3
    /\ S[1] # S[2] /\ S[2] # S[3] /\ S[1] # S[3]

\* C4: exactly once, and termination: a chain whose payouts are eventually
\* invoked ends; when it has ended, a schedule of n batches has had exactly n
\* payouts, the k-th of which paid batch k; and once ended the chain gains no
\* further instance or instruction.
C4_ExactlyOnceAndTermination ==
    /\ [](Running => <>Terminal)
    /\ [](Terminal =>
            /\ Len(txs) = Len(S)
            /\ \A k \in 1..Len(S) : txs[k].outputs[1][2].payments = S[k][2])
    /\ [][Terminal => (Terminal' /\ txs' = txs /\ insts' = insts)]_vars

C4_Witness ==
    /\ Terminal
    /\ Len(S) = 3
    /\ Len(txs) = 3
    /\ again # <<>>

\* C5: payout emits a second output exactly when the schedule of its instance
\* has more than one batch; on a one-batch instance it emits one output and
\* creates no continuation; an instruction has at most two outputs, the
\* distribution output first and the continuation second.
C5_OutputCount ==
    \A k \in 1..Len(txs) :
        LET outputs == txs[k].outputs
            n == Len(insts[k].batches)
        IN  /\ Len(outputs) \in {1, 2}
            /\ Len(outputs) = 2 <=> n > 1
            /\ outputs[1][2].kind = "TreePay"
            /\ Len(outputs) = 2 => outputs[2][2].kind = "AirDrop"
            /\ n = 1 => Len(insts) = k
            /\ n > 1 => Len(insts) > k /\ insts[k + 1] = outputs[2][2]

C5_Witness ==
    /\ Len(txs) = 2
    /\ Len(S) = 2
    /\ Len(txs[1].outputs) = 2
    /\ Len(txs[2].outputs) = 1

\* C6: every instruction has exactly one of sequence and lock_time set: the
\* one of the tag of the head batch's delay, holding that delay's magnitude;
\* the delays of the tail play no part.
C6_PredicateExclusive ==
    \A k \in 1..Len(txs) :
        LET delay == insts[k].batches[1][1]
            tx == txs[k]
        IN  /\ (tx.sequence = <<>>) # (tx.lock_time = <<>>)
            /\ delay.tag = "Relative" =>
                 tx.sequence = <<delay.time>> /\ tx.lock_time = <<>>
            /\ delay.tag = "Absolute" =>
                 tx.lock_time = <<delay.time>> /\ tx.sequence = <<>>

C6_Witness ==
    /\ Len(txs) = 2
    /\ S[1][1].tag = "Relative"
    /\ S[2][1].tag = "Absolute"
    /\ txs[1].sequence = <<1>>
    /\ txs[2].lock_time = <<2>>

C9_OverflowAtomic ==
    \A k \in 1..Len(txs) :
        /\ BatchTotal(insts[k].batches[1][2]) <= MaxMoney
        /\ ScheduleTotal(Suffix(insts[k].batches, 2)) <= MaxMoney

C11_HeadOutput ==
    /\ \A k \in 1..Len(txs) :
        LET head == insts[k].batches[1][2]
            out == txs[k].outputs[1]
        IN  /\ out[1] = BatchTotal(head)
            /\ out[2].kind = "TreePay"
            /\ out[2].payments = head
            /\ out[2].radix = insts[k].radix
    /\ again # <<>> =>
        LET head == insts[again[1].of].batches[1][2]
            out == again[1].tx.outputs[1]
        IN  out = <<BatchTotal(head), TreePay(head, insts[again[1].of].radix)>>

C11_Witness ==
    /\ Len(txs) = 2
    /\ Len(insts[2].batches[1][2]) = 3
    /\ txs[2].outputs[1][1] = 5
    /\ txs[2].outputs[1][2].radix = 3

\* the total of the values of the outputs of an instruction
OutputsTotal(tx) ==
    IF Len(tx.outputs) = 2 THEN tx.outputs[1][1] + tx.outputs[2][1]
    ELSE tx.outputs[1][1]

\* C12: value-conserving hops: the value the parent's second output assigns
\* to a continuation equals the total of the continuation's own schedule,
\* and equals the sum of the output values of the instruction the
\* continuation's own payout emits.
C12_ValueConservingHops ==
    \A k \in 2..Len(insts) :
        LET entering == txs[k - 1].outputs[2][1]
        IN  /\ entering = ScheduleTotal(insts[k].batches)
            /\ k <= Len(txs) => entering = OutputsTotal(txs[k])

\* C13: no empty continuation: once an instance with a non-empty schedule
\* exists, every instance constructed along the chain has a non-empty
\* schedule, and the recursion stops at the one-batch instance: no payout
\* tries to construct an instance without batches.
C13_NoEmptyContinuation ==
    insts # <<>> =>
        /\ \A k \in 1..Len(insts) : Len(insts[k].batches) >= 1
        /\ \A k \in 1..Len(txs) :
            Len(txs[k].outputs) = 2 => Len(txs[k].outputs[2][2].batches) >= 1
        /\ err = ""
        /\ Len(insts) <= Len(S)

C13_Witness ==
    /\ Len(insts) = 3
    /\ Len(txs) = 3
    /\ Len(insts[3].batches) = 1
    /\ again = <<>>
    /\ arg[1].radix = 2

\* C14: radix propagation: every instance of the chain has the radix of the
\* initial instance, and every distribution target of the chain is built
\* with that radix.
C14_RadixPropagated ==
    /\ \A k \in 1..Len(insts) : insts[k].radix = arg[1].radix
    /\ \A k \in 1..Len(txs) :
        /\ txs[k].outputs[1][2].radix = arg[1].radix
        /\ Len(txs[k].outputs) = 2 => txs[k].outputs[2][2].radix = arg[1].radix
    /\ again # <<>> => again[1].tx.outputs[1][2].radix = arg[1].radix

C14_Witness ==
    /\ Len(txs) = 3
    /\ arg[1].radix = 3
    /\ insts[3].radix = 3
    /\ txs[3].outputs[1][2].radix = 3

AllSameTotal(batches) ==
    \A i, j \in 1..Len(batches) :
        BatchTotal(batches[i][2]) = BatchTotal(batches[j][2])

\* C16: for a schedule whose batches all have the same total, the second
\* output of each payout of the chain has the sum of the totals of the tail
\* batches as its value, and the value entering each continuation equals the
\* sum of the outputs its payout emits.
C16_EqualTotalsConserve ==
    (arg # <<>> /\ AllSameTotal(S)) =>
        \A k \in 1..Len(txs) :
            /\ Len(insts[k].batches) >= 2 =>
                 /\ Len(txs[k].outputs) = 2
                 /\ txs[k].outputs[2][1] = ScheduleTotal(Suffix(insts[k].batches, 2))
            /\ k >= 2 => txs[k - 1].outputs[2][1] = OutputsTotal(txs[k])

C16_Witness ==
    /\ Len(txs) = 3
    /\ AllSameTotal(S)
    /\ S[1][2] # S[2][2]
    /\ txs[1].outputs[2][1] = 6
    /\ txs[2].outputs[2][1] = 3

====
